---- MODULE Spec2Model ----
(***************************************************************************)
(* State-machine model of the taskflow front-end client:                   *)
(*   - the payment status poller   (frontend/src/pages/PaymentSuccess.js)  *)
(*   - the checkout initiator      (frontend/src/pages/OrganizationPage.js)*)
(*                                                                         *)
(* A React function component is re-evaluated on every render; a function  *)
(* defined in its body closes over the state values of the render that     *)
(* created it.  The poller is started by an effect that runs once per      *)
(* mount (its dependency sessionId comes from the URL and is fixed for the *)
(* lifetime of the document), so every run of pollPaymentStatus, including *)
(* the ones re-armed with setTimeout, is the closure of the mount's first  *)
(* render.  The model keeps, per mount, the values that closure captured,  *)
(* and the requests and timers each mount has outstanding; the history     *)
(* variables `queries` and `responses` follow the latest mount.            *)
(*                                                                         *)
(* The two pages are checked separately (PollerSpec, CheckoutSpec): they   *)
(* share no state but the notification channel.  WorkflowsSpec takes one   *)
(* page or the other.  The application around the pages (unnamed/part_000: *)
(* the session kept in localStorage, the load effect, the route table; and *)
(* the logout of frontend/src/pages/Dashboard.js) is checked by AppSpec.   *)
(*                                                                         *)
(* The pages that load data when they open are checked each on its own:    *)
(* the dashboard with the session around it (DashboardSpec, with the       *)
(* requests of frontend/src/utils/api.js), the tasks page (TasksSpec) and  *)
(* the admin page (AdminSpec, unnamed/part_002).  PagesSpec takes any one  *)
(* of the four data pages, opened at its own path.                         *)
(***************************************************************************)
EXTENDS Integers, Sequences, FiniteSets, TLC

(* ------------------------------ bounds --------------------------------- *)

\* number of times the payment page is mounted within one document
MaxMounts == 3
\* counters are recorded exactly below MaxCount; MaxCount stands for "MaxCount or more"
MaxCount == 8
\* number of times the user presses "Proceed to Payment"
MaxUpgrades == 2
\* number of logins within one browser profile
MaxLogins == 2
\* number of times the filter of the tasks page is changed
MaxFilterChanges == 2
\* number of times the dashboard is mounted, and of organizations created
MaxDashMounts == 2
MaxCreates == 1
\* number of configurations the admin deletes
MaxEdits == 2

(* ------------------------- program constants --------------------------- *)

maxAttempts == 5

\* the number of bullets shown for a hidden secret
MaskLength == 20

\* JavaScript's null, undefined, and the empty string
Null == "<null>"
Undefined == "<undefined>"
EmptyString == ""

\* searchParams.get('session_id') of a URL without the parameter
NoSession == "null"
Sessions == {"cs_1"}
Insts == 1..MaxMounts
Terminal == {"success", "timeout", "error"}

\* what a status request can come back with: a response whose payment_status
\* is 'paid', a response with any other payment_status, a rejected promise
\* (network or HTTP error), a fulfilled response that has no data body
Outcomes == {"paid", "unpaid", "rejected", "nodata"}

VARIABLES
    sessionId,        \* searchParams.get('session_id')
    mounted,          \* a PaymentSuccess instance is mounted
    inst,             \* number of the current (or last) instance, 0 before the first mount
    status,           \* useState('checking') of that instance
    attempts,         \* useState(0) of that instance
    closureAttempts,  \* per instance: `attempts` as captured by its pollPaymentStatus
    inflight,         \* per instance: status requests awaiting their response
    timers,           \* per instance: pending setTimeout(pollPaymentStatus, 2000)
    toasts,           \* notifications emitted so far (sonner), oldest first
    queries,          \* history: status requests issued by instance inst
    responses,        \* history: the outcomes instance inst has handled, oldest first
    disposedPending,  \* history, per instance: unmounted while checking with a timer pending
    runToasts,        \* history: the notifications instance inst has emitted
    unhandled,        \* promise rejections that left a handler uncaught
    localStorage,     \* the browser's persistent storage: key -> string, or Null if absent
    user,             \* App: useState(null)
    appLoading,       \* App: loading, useState(true)
    effectRan,        \* App: the load effect has run since the page was loaded
    location,         \* the router's current path
    logins,           \* history: the logins so far
    tasks,            \* TasksPage: useState([])
    taskMembers,      \* TasksPage: members, useState([])
    tasksLoading,     \* TasksPage: loading, useState(true)
    activeFilter,     \* TasksPage: useState('all')
    taskFetches,      \* TasksPage: the fetchData calls awaiting their responses
    taskSent,         \* TasksPage: the fetchData calls so far
    configs,          \* AdminPage: useState([])
    adminLoading,     \* AdminPage: loading, useState(true)
    showSecrets,      \* AdminPage: useState({}), key name -> flag
    hasAccess,        \* AdminPage: useState(true)
    adminFetching,    \* AdminPage: the fetchConfigs calls awaiting their response
    adminDeleting,    \* AdminPage: the delete requests awaiting their response
    edits,            \* AdminPage: the delete requests so far
    toggled,          \* history: key name -> it was toggled an odd number of times
    organizations,    \* Dashboard: useState([])
    dashLoading,      \* Dashboard: loading, useState(true)
    createDialogOpen, \* Dashboard: useState(false)
    dashMounted,      \* Dashboard: an instance is mounted
    dashFetching,     \* Dashboard: fetchOrganizations calls of the mounted instance awaiting
    dashCreating,     \* Dashboard: handleCreateOrg calls of the mounted instance awaiting
    staleFetching,    \* the same of instances that were unmounted since
    staleCreating,
    dashMounts,       \* history: the mounts of the dashboard so far
    creates,          \* history: the organizations submitted so far
    lastRequest,      \* history: the request built last by the application shell and dashboard
    loadFailures,     \* history: the data fetches of the pages that failed
    organization,     \* useState(null)
    members,          \* useState([])
    stats,            \* useState(null)
    loading,          \* useState(true) of OrganizationPage
    inviteDialogOpen, \* useState(false)
    fetching,         \* fetchData calls awaiting their responses
    selectedPackage,  \* useState('starter')
    paymentDialogOpen,\* useState(false)
    pending,          \* checkout requests awaiting their response
    sent,             \* checkout requests issued so far
    navigations,      \* values assigned to window.location.href, oldest first
    clicks,           \* history: presses of "Proceed to Payment"
    settled           \* history: checkout requests and the responses handled, oldest first

pollerVars == <<sessionId, mounted, inst, status, attempts, closureAttempts, inflight,
                timers, queries, responses, disposedPending, runToasts>>
pageVars == <<organization, members, stats, loading, inviteDialogOpen>>
checkoutVars == <<pageVars, fetching, selectedPackage, paymentDialogOpen, pending, sent,
                  navigations, clicks, settled>>
appVars == <<localStorage, user, appLoading, effectRan, location, logins>>

tasksVars == <<tasks, taskMembers, tasksLoading, activeFilter, taskFetches, taskSent>>

adminVars == <<configs, adminLoading, showSecrets, hasAccess, adminFetching, adminDeleting,
               edits, toggled>>

dashVars == <<organizations, dashLoading, createDialogOpen, dashMounted, dashFetching,
              dashCreating, staleFetching, staleCreating, dashMounts, creates>>

pagesVars == <<tasksVars, adminVars, dashVars, lastRequest, loadFailures>>

vars == <<pollerVars, checkoutVars, appVars, pagesVars, toasts, unhandled>>

(* ------------------------------ helpers -------------------------------- *)

\* prev => prev + 1, recorded up to MaxCount
Inc(n) == IF n < MaxCount THEN n + 1 ELSE n

\* history of at most MaxCount entries
Record(h, e) == IF Len(h) < MaxCount THEN Append(h, e) ELSE h

ToastSuccess == [kind |-> "success", msg |-> "Payment successful!"]
ToastTimeout == [kind |-> "error", msg |-> "Payment verification timed out. Please contact support."]
ToastFailed == [kind |-> "error", msg |-> "Failed to verify payment status"]

\* variant: reads a field the response does not have, so `paid` is never seen
PollBranch_WrongField(o, att) ==
    IF o \in {"rejected", "nodata"} THEN "error"
    ELSE IF att < maxAttempts THEN "retry"
    ELSE "timeout"

\* variant: a failed request is retried like a not-paid one
PollBranch_RetryOnError(o, att) ==
    IF o = "paid" THEN "success"
    ELSE IF att < maxAttempts THEN "retry"
    ELSE IF o = "unpaid" THEN "timeout"
    ELSE "error"

\* variant: the response is read before the try block is entered
PollBranch_ReadOutsideTry(o, att) ==
    IF o = "nodata" THEN "throw"
    ELSE IF o = "rejected" THEN "error"
    ELSE IF o = "paid" THEN "success"
    ELSE IF att < maxAttempts THEN "retry"
    ELSE "timeout"

\* The branch pollPaymentStatus takes once its request has settled with outcome o,
\* att being the value of `attempts` in its closure.
PollBranch(o, att) ==
    IF o \in {"rejected", "nodata"} THEN "error"
    ELSE IF o = "paid" THEN "success"
    ELSE IF att < maxAttempts THEN "retry"
    ELSE "timeout"

ToastFor(b) ==
    CASE b = "success" -> ToastSuccess
      [] b = "timeout" -> ToastTimeout
      [] b = "error" -> ToastFailed

\* "Attempt {attempts + 1} of 5..."
AttemptShown(att) == att + 1
AttemptsTotalShown == 5

\* variant: any value but null starts the poller
HasSession_Always(sid) == TRUE

\* if (sessionId): null and the empty string are falsy
HasSession(sid) == sid \notin {NoSession, EmptyString}

\* paymentAPI.getStatus(sessionId): one more request in flight for instance i
IssueQuery(f, i) == [f EXCEPT ![i] = @ + 1]

\* variant: the retry is armed twice
ScheduleRetry_Twice(t, i) == [t EXCEPT ![i] = @ + 2]

\* setTimeout(pollPaymentStatus, 2000): one more pending timer for instance i
ScheduleRetry(t, i) == [t EXCEPT ![i] = @ + 1]

(* ------------------------------- poller -------------------------------- *)

\* The route renders PaymentSuccess: first render, then the effect of lines 16-20.
Mount ==
    /\ ~mounted
    /\ inst < MaxMounts
    /\ mounted' = TRUE
    /\ inst' = inst + 1
    /\ status' = "checking"
    /\ attempts' = 0
    /\ IF HasSession(sessionId)
       THEN /\ closureAttempts' = [closureAttempts EXCEPT ![inst + 1] = attempts']
            /\ inflight' = IssueQuery(inflight, inst + 1)
            /\ queries' = 1
       ELSE /\ queries' = 0
            /\ UNCHANGED <<closureAttempts, inflight>>
    /\ responses' = <<>>
    /\ runToasts' = <<>>
    /\ UNCHANGED <<sessionId, timers, toasts, disposedPending, unhandled>>
    /\ UNCHANGED <<checkoutVars, appVars, pagesVars>>

\* The route stops rendering PaymentSuccess.  The effect returns no cleanup:
\* requests in flight and pending timers are left as they are.
Unmount ==
    /\ mounted
    /\ mounted' = FALSE
    /\ disposedPending' = [disposedPending EXCEPT
                             ![inst] = (status = "checking" /\ timers[inst] > 0)]
    /\ UNCHANGED <<sessionId, inst, status, attempts, closureAttempts, inflight, timers,
                   toasts, queries, responses, runToasts, unhandled>>
    /\ UNCHANGED <<checkoutVars, appVars, pagesVars>>

\* variant: every retry tells the user that verification is still going on
Settle_ToastOnRetry(i, o) ==
    /\ inflight[i] > 0
    /\ LET b == PollBranch(o, closureAttempts[i])
           live == mounted /\ inst = i
           said == IF b = "retry" THEN <<ToastTimeout>>
                   ELSE IF b = "throw" THEN <<>> ELSE <<ToastFor(b)>>
       IN  /\ inflight' = [inflight EXCEPT ![i] = @ - 1]
           /\ status' = IF live /\ b \in Terminal THEN b ELSE status
           /\ attempts' = IF live /\ b = "retry" THEN Inc(attempts) ELSE attempts
           /\ timers' = IF b = "retry" THEN ScheduleRetry(timers, i) ELSE timers
           /\ toasts' = toasts \o said
           /\ runToasts' = IF i = inst THEN runToasts \o said ELSE runToasts
           /\ unhandled' = IF b = "throw" THEN Inc(unhandled) ELSE unhandled
           /\ responses' = IF i = inst THEN Record(responses, o) ELSE responses
    /\ UNCHANGED <<sessionId, mounted, inst, closureAttempts, queries, disposedPending>>
    /\ UNCHANGED <<checkoutVars, appVars, pagesVars>>

\* The awaited request of instance i settles with outcome o and pollPaymentStatus
\* runs to its end (lines 26-44).  The state setters of an instance that is no
\* longer mounted have no effect; toast and setTimeout are global.  An
\* exception that left the function ("throw") would reject its promise, which
\* nobody awaits.
Settle(i, o) ==
    /\ inflight[i] > 0
    /\ LET b == PollBranch(o, closureAttempts[i])
           live == mounted /\ inst = i
           said == IF b \in {"retry", "throw"} THEN <<>> ELSE <<ToastFor(b)>>
       IN  /\ inflight' = [inflight EXCEPT ![i] = @ - 1]
           /\ status' = IF live /\ b \in Terminal THEN b ELSE status
           /\ attempts' = IF live /\ b = "retry" THEN Inc(attempts) ELSE attempts
           /\ timers' = IF b = "retry" THEN ScheduleRetry(timers, i) ELSE timers
           /\ toasts' = toasts \o said
           /\ runToasts' = IF i = inst THEN runToasts \o said ELSE runToasts
           /\ unhandled' = IF b = "throw" THEN Inc(unhandled) ELSE unhandled
           /\ responses' = IF i = inst THEN Record(responses, o) ELSE responses
    /\ UNCHANGED <<sessionId, mounted, inst, closureAttempts, queries, disposedPending>>
    /\ UNCHANGED <<checkoutVars, appVars, pagesVars>>

\* A pending timer of instance i elapses: pollPaymentStatus (the same closure)
\* is called again and issues its request (line 26).
TimerFire(i) ==
    /\ timers[i] > 0
    /\ timers' = [timers EXCEPT ![i] = @ - 1]
    /\ inflight' = IssueQuery(inflight, i)
    /\ queries' = IF i = inst THEN Inc(queries) ELSE queries
    /\ UNCHANGED <<sessionId, mounted, inst, status, attempts, closureAttempts, toasts,
                   responses, disposedPending, runToasts, unhandled>>
    /\ UNCHANGED <<checkoutVars, appVars, pagesVars>>

(* ------------------------- checkout initiator -------------------------- *)

\* the ids of the `packages` table
Packages == {"starter", "professional", "enterprise"}

\* useParams().orgId
orgId == "org-42"

Urls == {"https://pay.example/c/cs_1", "https://pay.example/c/cs_2"}
Details == {"Organization not found"}

\* what a checkout request can come back with: a fulfilled response whose data
\* holds url (possibly missing or empty), a fulfilled response with no data
\* body, a rejected promise whose error.response.data.detail is val (missing
\* for a network error)
CheckoutResponses ==
    {[kind |-> "ok", val |-> u] : u \in Urls \cup {EmptyString, Undefined}}
        \cup {[kind |-> "nodata", val |-> Undefined]}
        \cup {[kind |-> "rejected", val |-> d] : d \in Details \cup {EmptyString, Undefined}}

\* variant: the plan of the request is the default, not the selection
CheckoutRequest_Default(pkg, org) == [package_id |-> "starter", org_id |-> org]

\* the body handleUpgrade posts
CheckoutRequest(pkg, org) == [package_id |-> pkg, org_id |-> org]

\* a || b on strings and undefined
OrElse(a, b) == IF a \in {Undefined, EmptyString} THEN b ELSE a

\* variant: the returned URL is taken as a path of this site
HrefValue_Relative(v) == IF v = Undefined THEN "undefined" ELSE "/" \o v

\* the string window.location.href is set to by `window.location.href = v`
HrefValue(v) == IF v = Undefined THEN "undefined" ELSE v

\* What handleUpgrade does with resp: a fulfilled response with data is a
\* navigation; a rejection goes to catch; so does the TypeError of reading
\* .url of a missing data body, raised inside the try.
CheckoutBranch(resp) == IF resp.kind = "ok" THEN "navigate" ELSE "toast"

\* the notification of handleUpgrade's catch block
CheckoutToast(detail) ==
    [kind |-> "error", msg |-> OrElse(detail, "Failed to create checkout session")]

\* variant: the failed request is sent again
AfterFailure_Retry(p, r) == p

\* the requests outstanding once request r has failed
AfterFailure(p, r) == p \ {r}

\* what the three requests of fetchData can come back with: the data of an
\* organization on the free plan or with an active subscription, or a failure
\* of any of the three
FetchResponses ==
    {[ok |-> TRUE, org |-> o, members |-> <<"owner">>, stats |-> "stats"] :
        o \in {"organization:free", "organization:active"}}
        \cup {[ok |-> FALSE, org |-> Null, members |-> <<>>, stats |-> Null]}

\* organization?.subscription_status
SubscriptionStatus(o) ==
    CASE o = "organization:free" -> "free"
      [] o = "organization:active" -> "active"
      [] OTHER -> Undefined

ToastLoadFailed == [kind |-> "error", msg |-> "Failed to load organization data"]

\* the page body is rendered (line 76 returns "Loading..." before)
PageShown == ~loading

\* the subscription card offers the upgrade dialog:
\* organization?.subscription_status !== 'active'
UpgradeShown ==
    /\ PageShown
    /\ SubscriptionStatus(organization) # "active"

\* The awaited Promise.all of fetchData settles with resp: lines 35-42.
FetchSettle(resp) ==
    /\ fetching > 0
    /\ fetching' = fetching - 1
    /\ IF resp.ok
       THEN /\ organization' = resp.org
            /\ members' = resp.members
            /\ stats' = resp.stats
            /\ UNCHANGED toasts
       ELSE /\ toasts' = Append(toasts, ToastLoadFailed)
            /\ UNCHANGED <<organization, members, stats>>
    /\ loadFailures' = IF resp.ok THEN loadFailures ELSE loadFailures + 1
    /\ loading' = FALSE
    /\ UNCHANGED <<inviteDialogOpen, selectedPackage, paymentDialogOpen, pending, sent,
                   navigations, clicks, settled, unhandled>>
    /\ UNCHANGED <<pollerVars, appVars, tasksVars, adminVars, dashVars, lastRequest>>

\* <Dialog open={inviteDialogOpen} onOpenChange={setInviteDialogOpen}>
SetInviteDialogOpen(open) ==
    /\ PageShown
    /\ inviteDialogOpen # open
    /\ inviteDialogOpen' = open
    /\ UNCHANGED <<organization, members, stats, loading, fetching, selectedPackage,
                   paymentDialogOpen, pending, sent, navigations, clicks, settled, toasts, unhandled>>
    /\ UNCHANGED <<pollerVars, appVars, pagesVars>>

\* <Dialog open={paymentDialogOpen} onOpenChange={setPaymentDialogOpen}>
SetPaymentDialogOpen(open) ==
    /\ UpgradeShown
    /\ paymentDialogOpen # open
    /\ paymentDialogOpen' = open
    /\ UNCHANGED <<pageVars, fetching, selectedPackage, pending, sent, navigations, clicks,
                   settled, toasts, unhandled>>
    /\ UNCHANGED <<pollerVars, appVars, pagesVars>>

\* a plan card of the open dialog is clicked
SelectPackage(pkg) ==
    /\ UpgradeShown
    /\ paymentDialogOpen
    /\ selectedPackage' = pkg
    /\ UNCHANGED <<pageVars, fetching, paymentDialogOpen, pending, sent, navigations, clicks,
                   settled, toasts, unhandled>>
    /\ UNCHANGED <<pollerVars, appVars, pagesVars>>

\* "Proceed to Payment" is pressed: handleUpgrade up to its await
HandleUpgrade ==
    /\ UpgradeShown
    /\ paymentDialogOpen
    /\ clicks < MaxUpgrades
    /\ clicks' = clicks + 1
    /\ sent' = sent + 1
    /\ pending' = pending \cup {[n |-> sent + 1, data |-> CheckoutRequest(selectedPackage, orgId)]}
    /\ UNCHANGED <<pageVars, fetching, selectedPackage, paymentDialogOpen, navigations,
                   settled, toasts, unhandled>>
    /\ UNCHANGED <<pollerVars, appVars, pagesVars>>

\* variant: the catch block also closes the dialog, as handleInvite does on success
CheckoutSettle_ClosesDialog(r, resp) ==
    /\ r \in pending
    /\ settled' = Append(settled, [n |-> r.n, resp |-> resp])
    /\ LET b == CheckoutBranch(resp)
       IN  /\ navigations' = IF b = "navigate" THEN Append(navigations, HrefValue(resp.val))
                             ELSE navigations
           /\ toasts' = IF b = "toast" THEN Append(toasts, CheckoutToast(resp.val)) ELSE toasts
           /\ pending' = IF b = "toast" THEN AfterFailure(pending, r) ELSE pending \ {r}
           /\ paymentDialogOpen' = IF b = "toast" THEN FALSE ELSE paymentDialogOpen
           /\ unhandled' = IF b = "throw" THEN Inc(unhandled) ELSE unhandled
    /\ UNCHANGED <<pageVars, fetching, selectedPackage, sent, clicks>>
    /\ UNCHANGED <<pollerVars, appVars, pagesVars>>

\* The awaited request r settles with resp: the rest of handleUpgrade (lines
\* 70-73).  An exception that left the function ("throw") would reject its
\* promise, which the click handler does not await.
CheckoutSettle(r, resp) ==
    /\ r \in pending
    /\ settled' = Append(settled, [n |-> r.n, resp |-> resp])
    /\ LET b == CheckoutBranch(resp)
       IN  /\ navigations' = IF b = "navigate" THEN Append(navigations, HrefValue(resp.val))
                             ELSE navigations
           /\ toasts' = IF b = "toast" THEN Append(toasts, CheckoutToast(resp.val)) ELSE toasts
           /\ pending' = IF b = "toast" THEN AfterFailure(pending, r) ELSE pending \ {r}
           /\ unhandled' = IF b = "throw" THEN Inc(unhandled) ELSE unhandled
    /\ UNCHANGED <<pageVars, fetching, selectedPackage, paymentDialogOpen, sent, clicks>>
    /\ UNCHANGED <<pollerVars, appVars, pagesVars>>

CheckoutNext ==
    \/ \E resp \in FetchResponses : FetchSettle(resp)
    \/ \E open \in BOOLEAN : SetInviteDialogOpen(open)
    \/ \E open \in BOOLEAN : SetPaymentDialogOpen(open)
    \/ \E pkg \in Packages : SelectPackage(pkg)
    \/ HandleUpgrade
    \/ \E r \in pending, resp \in CheckoutResponses : CheckoutSettle(r, resp)


(* --------------------------- the application --------------------------- *)

Tokens == {"tok-1"}
Users == {"u1", "u2"}

\* JSON.stringify of a user object
JSONStringify(u) == "{\"id\":\"" \o u \o "\"}"

\* JSON.parse(str): the text of a user object gives the object, "null" gives
\* null, anything else in the storage contents below is a SyntaxError
JSONParse(str) ==
    IF str = "null" THEN [ok |-> TRUE, val |-> Null]
    ELSE IF \E u \in Users : str = JSONStringify(u)
         THEN [ok |-> TRUE, val |-> CHOOSE u \in Users : str = JSONStringify(u)]
         ELSE [ok |-> FALSE, val |-> Undefined]

\* what a browser can hold under the keys 'token' and 'user' when the page is
\* opened: nothing, the empty string, what a login stored, the JSON text of
\* null, and the text JSON.stringify(undefined) leaves behind
StorageContents ==
    {[token |-> t, user |-> d] :
        t \in {Null, EmptyString} \cup Tokens,
        d \in {Null, EmptyString, JSONStringify("u1"), "null", "undefined"}}

LoggedInStorage == [token |-> "tok-1", user |-> JSONStringify("u1")]

getItem(store, key) == store[key]
setItem(store, key, value) == [store EXCEPT ![key] = value]
removeItem(store, key) == [store EXCEPT ![key] = Null]

\* a value in a condition: null, undefined and the empty string are falsy
Truthy(v) == v \notin {Null, Undefined, EmptyString}

ProtectedPaths ==
    {"/dashboard", "/organization/org-42", "/organization/org-42/tasks", "/admin",
     "/payment-success", "/payment-cancel"}

Paths == ProtectedPaths \cup {"/auth", "/"}

\* the element of each protected route
RoutePage(path) ==
    CASE path = "/dashboard" -> "Dashboard"
      [] path = "/organization/org-42" -> "OrganizationPage"
      [] path = "/organization/org-42/tasks" -> "TasksPage"
      [] path = "/admin" -> "AdminPage"
      [] path = "/payment-success" -> "PaymentSuccess"
      [] path = "/payment-cancel" -> "PaymentCancel"

ProtectedPages == {RoutePage(path) : path \in ProtectedPaths}

LoadingElement == [kind |-> "loading", arg |-> "Loading..."]
Blank == [kind |-> "blank", arg |-> ""]
Navigate(to) == [kind |-> "navigate", arg |-> to]
Page(name) == [kind |-> "page", arg |-> name]

\* variant: the gate waits for the load but does not look at the user
ProtectedRoute_LoadingOnly(usr, ld, children) ==
    IF ld THEN LoadingElement ELSE children

\* const ProtectedRoute = ({ children }) => ...
ProtectedRoute(usr, ld, children) ==
    IF ld THEN LoadingElement
    ELSE IF ~Truthy(usr) THEN Navigate("/auth")
    ELSE children

\* What App shows at path: nothing once the load effect has thrown (an error
\* in an effect unmounts the tree), "Loading..." while loading, otherwise the
\* element of the route that matches.
Render(path, usr, ld, ran) ==
    IF ld /\ ran THEN Blank
    ELSE IF ld THEN LoadingElement
    ELSE IF path = "/auth"
         THEN IF Truthy(usr) THEN Navigate("/dashboard") ELSE Page("AuthPage")
    ELSE IF path = "/"
         THEN Navigate(IF Truthy(usr) THEN "/dashboard" ELSE "/auth")
    ELSE ProtectedRoute(usr, ld, Page(RoutePage(path)))

Shown == Render(location, user, appLoading, effectRan)

ToastLoggedOut == [kind |-> "success", msg |-> "Logged out successfully"]

NoHeaders == [h \in {} |-> ""]

\* variant: the header is built whatever getItem returned
getAuthHeaders_Always(store) ==
    [h \in {"Authorization"} |-> "Bearer " \o getItem(store, "token")]

\* api.js: token ? { Authorization: `Bearer ${token}` } : {}
getAuthHeaders(store) ==
    IF Truthy(getItem(store, "token"))
    THEN [h \in {"Authorization"} |-> "Bearer " \o getItem(store, "token")]
    ELSE NoHeaders

\* the requests api.js builds for the shell and the dashboard
AuthLogin == [api |-> "POST /auth/login", headers |-> NoHeaders]
OrganizationGetAll(store) == [api |-> "GET /organizations", headers |-> getAuthHeaders(store)]
OrganizationCreate(store) == [api |-> "POST /organizations", headers |-> getAuthHeaders(store)]

\* the request that follows prev; n alternates, so that a request equal to
\* the one before it still changes the variable
Sent(prev, req) == [n |-> 1 - prev.n, api |-> req.api, headers |-> req.headers]

\* The effect of App's first render: hydrate the user from storage.  A
\* SyntaxError of JSON.parse leaves the effect before setLoading(false).
Load ==
    /\ ~effectRan
    /\ effectRan' = TRUE
    /\ LET token == getItem(localStorage, "token")
           userData == getItem(localStorage, "user")
       IN  IF Truthy(token) /\ Truthy(userData)
           THEN IF JSONParse(userData).ok
                THEN /\ user' = JSONParse(userData).val
                     /\ appLoading' = FALSE
                ELSE UNCHANGED <<user, appLoading>>
           ELSE /\ appLoading' = FALSE
                /\ UNCHANGED user
    /\ UNCHANGED <<localStorage, location, logins, toasts, unhandled>>
    /\ UNCHANGED <<pollerVars, checkoutVars, pagesVars>>

\* The login page signs user u in: the session store's `set`, token and user
\* JSON into storage and the user into memory.
Login(t, u) ==
    /\ Shown = Page("AuthPage")
    /\ logins < MaxLogins
    /\ logins' = logins + 1
    /\ localStorage' = setItem(setItem(localStorage, "token", t), "user", JSONStringify(u))
    /\ user' = u
    /\ lastRequest' = Sent(lastRequest, AuthLogin)
    /\ UNCHANGED <<appLoading, effectRan, location, toasts, unhandled>>
    /\ UNCHANGED <<pollerVars, checkoutVars, tasksVars, adminVars, dashVars, loadFailures>>

\* variant: the token stays in storage
HandleLogout_KeepsToken ==
    /\ Shown = Page("Dashboard")
    /\ localStorage' = removeItem(localStorage, "user")
    /\ user' = Null
    /\ location' = "/auth"
    /\ toasts' = Append(toasts, ToastLoggedOut)
    /\ UNCHANGED <<appLoading, effectRan, logins, unhandled>>
    /\ UNCHANGED <<pollerVars, checkoutVars, pagesVars>>

\* Dashboard's handleLogout
HandleLogout ==
    /\ Shown = Page("Dashboard")
    /\ localStorage' = removeItem(removeItem(localStorage, "token"), "user")
    /\ user' = Null
    /\ location' = "/auth"
    /\ toasts' = Append(toasts, ToastLoggedOut)
    /\ UNCHANGED <<appLoading, effectRan, logins, unhandled>>
    /\ UNCHANGED <<pollerVars, checkoutVars, pagesVars>>

\* a rendered <Navigate to=...> changes the location
Redirect ==
    /\ Shown.kind = "navigate"
    /\ location' = Shown.arg
    /\ UNCHANGED <<localStorage, user, appLoading, effectRan, logins, toasts, unhandled>>
    /\ UNCHANGED <<pollerVars, checkoutVars, pagesVars>>

\* a link, a navigate(...) of a page or the browser's back button moves the
\* running application to path
GoTo(path) ==
    /\ Shown.kind = "page"
    /\ path # location
    /\ location' = path
    /\ UNCHANGED <<localStorage, user, appLoading, effectRan, logins, toasts, unhandled>>
    /\ UNCHANGED <<pollerVars, checkoutVars, pagesVars>>

\* the browser loads the application at path: memory starts over (with it
\* the dashboard and what its handlers were waiting for), storage stays
OpenUrl(path) ==
    /\ location' = path
    /\ user' = Null
    /\ appLoading' = TRUE
    /\ effectRan' = FALSE
    /\ toasts' = <<>>
    /\ organizations' = <<>>
    /\ dashLoading' = TRUE
    /\ createDialogOpen' = FALSE
    /\ dashMounted' = FALSE
    /\ dashFetching' = 0
    /\ dashCreating' = 0
    /\ staleFetching' = 0
    /\ staleCreating' = 0
    /\ UNCHANGED <<localStorage, logins, unhandled, dashMounts, creates>>
    /\ UNCHANGED <<pollerVars, checkoutVars, tasksVars, adminVars, lastRequest, loadFailures>>

(* ----------------------------- the dashboard --------------------------- *)

\* what organizationAPI.getAll can come back with
OrganizationLists == {<<>>, <<"org-42">>}

ToastOrgsFailed == [kind |-> "error", msg |-> "Failed to load organizations"]
ToastOrgCreated == [kind |-> "success", msg |-> "Organization created successfully!"]
ToastCreateFailed == [kind |-> "error", msg |-> "Failed to create organization"]

\* the route shows the dashboard and no instance is mounted yet
NeedsMount == Shown = Page("Dashboard") /\ ~dashMounted /\ dashMounts < MaxDashMounts

\* an instance is mounted and the route no longer shows the dashboard
NeedsUnmount == dashMounted /\ Shown # Page("Dashboard")

\* the dashboard is on screen
DashboardShown == dashMounted /\ Shown = Page("Dashboard")

\* Dashboard is mounted: its state cells start over and the effect of lines
\* 18-20 calls fetchOrganizations
DashboardMount ==
    /\ NeedsMount
    /\ dashMounted' = TRUE
    /\ dashMounts' = dashMounts + 1
    /\ organizations' = <<>>
    /\ dashLoading' = TRUE
    /\ createDialogOpen' = FALSE
    /\ dashFetching' = 1
    /\ dashCreating' = 0
    /\ lastRequest' = Sent(lastRequest, OrganizationGetAll(localStorage))
    /\ UNCHANGED <<staleFetching, staleCreating, creates, loadFailures, toasts, unhandled>>
    /\ UNCHANGED <<pollerVars, checkoutVars, appVars, tasksVars, adminVars>>

\* Dashboard is unmounted; what its handlers await stays outstanding
DashboardUnmount ==
    /\ NeedsUnmount
    /\ dashMounted' = FALSE
    /\ staleFetching' = staleFetching + dashFetching
    /\ staleCreating' = staleCreating + dashCreating
    /\ dashFetching' = 0
    /\ dashCreating' = 0
    /\ UNCHANGED <<organizations, dashLoading, createDialogOpen, dashMounts, creates,
                   lastRequest, loadFailures, toasts, unhandled>>
    /\ UNCHANGED <<pollerVars, checkoutVars, appVars, tasksVars, adminVars>>

\* The awaited request of fetchOrganizations settles (lines 25-30); live says
\* whether the instance that called it is still the mounted one.
FetchOrganizationsSettle(live, ok, list) ==
    /\ IF live
       THEN /\ dashFetching > 0
            /\ dashFetching' = dashFetching - 1
            /\ organizations' = IF ok THEN list ELSE organizations
            /\ dashLoading' = FALSE
            /\ UNCHANGED staleFetching
       ELSE /\ staleFetching > 0
            /\ staleFetching' = staleFetching - 1
            /\ UNCHANGED <<dashFetching, organizations, dashLoading>>
    /\ toasts' = IF ok THEN toasts ELSE Append(toasts, ToastOrgsFailed)
    /\ loadFailures' = IF ok THEN loadFailures ELSE loadFailures + 1
    /\ UNCHANGED <<createDialogOpen, dashMounted, dashCreating, staleCreating, dashMounts,
                   creates, lastRequest, unhandled>>
    /\ UNCHANGED <<pollerVars, checkoutVars, appVars, tasksVars, adminVars>>

\* <Dialog open={createDialogOpen} onOpenChange={setCreateDialogOpen}>
SetCreateDialogOpen(open) ==
    /\ DashboardShown
    /\ createDialogOpen # open
    /\ createDialogOpen' = open
    /\ UNCHANGED <<organizations, dashLoading, dashMounted, dashFetching, dashCreating,
                   staleFetching, staleCreating, dashMounts, creates, lastRequest,
                   loadFailures, toasts, unhandled>>
    /\ UNCHANGED <<pollerVars, checkoutVars, appVars, tasksVars, adminVars>>

\* the form of the dialog is submitted: handleCreateOrg up to its await
HandleCreateOrg ==
    /\ DashboardShown
    /\ createDialogOpen
    /\ creates < MaxCreates
    /\ creates' = creates + 1
    /\ dashCreating' = dashCreating + 1
    /\ lastRequest' = Sent(lastRequest, OrganizationCreate(localStorage))
    /\ UNCHANGED <<organizations, dashLoading, createDialogOpen, dashMounted, dashFetching,
                   staleFetching, staleCreating, dashMounts, loadFailures, toasts, unhandled>>
    /\ UNCHANGED <<pollerVars, checkoutVars, appVars, tasksVars, adminVars>>

\* The awaited create request settles: the rest of handleCreateOrg (lines
\* 40-46); on success it calls fetchOrganizations, mounted or not.
CreateOrgSettle(live, ok) ==
    /\ IF live
       THEN /\ dashCreating > 0
            /\ dashCreating' = dashCreating - 1
            /\ createDialogOpen' = IF ok THEN FALSE ELSE createDialogOpen
            /\ dashFetching' = IF ok THEN dashFetching + 1 ELSE dashFetching
            /\ UNCHANGED <<staleCreating, staleFetching>>
       ELSE /\ staleCreating > 0
            /\ staleCreating' = staleCreating - 1
            /\ staleFetching' = IF ok THEN staleFetching + 1 ELSE staleFetching
            /\ UNCHANGED <<dashCreating, createDialogOpen, dashFetching>>
    /\ toasts' = Append(toasts, IF ok THEN ToastOrgCreated ELSE ToastCreateFailed)
    /\ lastRequest' = IF ok THEN Sent(lastRequest, OrganizationGetAll(localStorage))
                      ELSE lastRequest
    /\ UNCHANGED <<organizations, dashLoading, dashMounted, dashMounts, creates,
                   loadFailures, unhandled>>
    /\ UNCHANGED <<pollerVars, checkoutVars, appVars, tasksVars, adminVars>>

DashboardHandlers ==
    \/ \E live, ok \in BOOLEAN : \E list \in OrganizationLists :
          FetchOrganizationsSettle(live, ok, list)
    \/ \E open \in BOOLEAN : SetCreateDialogOpen(open)
    \/ HandleCreateOrg
    \/ \E live, ok \in BOOLEAN : CreateOrgSettle(live, ok)

AppNext ==
    \/ Load
    \/ \E t \in Tokens, u \in Users : Login(t, u)
    \/ HandleLogout
    \/ Redirect
    \/ \E path \in Paths : GoTo(path)
    \/ \E path \in Paths : OpenUrl(path)

(* ---------------------------- the tasks page --------------------------- *)

\* the values of the filter tabs
Filters == {"all", "my-tasks", "pending", "about_to_do", "completed", "daily"}

\* variant: every filter but 'all' is also sent as a status
Params_StatusForAny(filter) ==
    (IF filter = "my-tasks" THEN {<<"assigned_to_me", "true">>} ELSE {})
        \cup (IF filter = "daily" THEN {<<"is_daily", "true">>} ELSE {})
        \cup (IF filter # "all" THEN {<<"status", filter>>} ELSE {})

\* the query parameters fetchData builds, as name-value pairs
Params(filter) ==
    (IF filter = "my-tasks" THEN {<<"assigned_to_me", "true">>} ELSE {})
        \cup (IF filter = "daily" THEN {<<"is_daily", "true">>} ELSE {})
        \cup (IF filter \in {"pending", "about_to_do", "completed"}
              THEN {<<"status", filter>>} ELSE {})

\* the n-th fetchData call, made with the filter of the render that made it
TaskFetch(n, filter) == [n |-> n, params |-> Params(filter)]

\* what the two requests of fetch r can come back with: the task list the
\* backend holds for r and the members, or a failure of either
TaskResponses(r) ==
    {[ok |-> TRUE, tasks |-> <<r.n>>, members |-> <<"owner">>],
     [ok |-> FALSE, tasks |-> <<>>, members |-> <<>>]}

ToastTasksFailed == [kind |-> "error", msg |-> "Failed to load tasks"]

\* a tab is chosen: setActiveFilter, and the effect of the next render calls
\* fetchData
SetActiveFilter(filter) ==
    /\ filter # activeFilter
    /\ taskSent <= MaxFilterChanges
    /\ activeFilter' = filter
    /\ taskSent' = taskSent + 1
    /\ taskFetches' = taskFetches \cup {TaskFetch(taskSent + 1, filter)}
    /\ UNCHANGED <<tasks, taskMembers, tasksLoading, loadFailures, toasts, unhandled>>
    /\ UNCHANGED <<pollerVars, checkoutVars, appVars, adminVars, dashVars, lastRequest>>

\* variant: setLoading(false) follows setMembers inside the try block
TasksFetchSettle_NoFinally(r, resp) ==
    /\ r \in taskFetches
    /\ taskFetches' = taskFetches \ {r}
    /\ IF resp.ok
       THEN /\ tasks' = resp.tasks
            /\ taskMembers' = resp.members
            /\ tasksLoading' = FALSE
            /\ UNCHANGED <<toasts, loadFailures>>
       ELSE /\ toasts' = Append(toasts, ToastTasksFailed)
            /\ loadFailures' = loadFailures + 1
            /\ UNCHANGED <<tasks, taskMembers, tasksLoading>>
    /\ UNCHANGED <<activeFilter, taskSent, unhandled>>
    /\ UNCHANGED <<pollerVars, checkoutVars, appVars, adminVars, dashVars, lastRequest>>

\* The awaited Promise.all of fetch r settles with resp: lines 41-47.
TasksFetchSettle(r, resp) ==
    /\ r \in taskFetches
    /\ taskFetches' = taskFetches \ {r}
    /\ IF resp.ok
       THEN /\ tasks' = resp.tasks
            /\ taskMembers' = resp.members
            /\ UNCHANGED <<toasts, loadFailures>>
       ELSE /\ toasts' = Append(toasts, ToastTasksFailed)
            /\ loadFailures' = loadFailures + 1
            /\ UNCHANGED <<tasks, taskMembers>>
    /\ tasksLoading' = FALSE
    /\ UNCHANGED <<activeFilter, taskSent, unhandled>>
    /\ UNCHANGED <<pollerVars, checkoutVars, appVars, adminVars, dashVars, lastRequest>>

TasksNext ==
    \/ \E filter \in Filters : SetActiveFilter(filter)
    \/ \E r \in taskFetches : \E resp \in TaskResponses(r) : TasksFetchSettle(r, resp)

(* ---------------------------- the admin page --------------------------- *)

SecretKeys == {"STRIPE_KEY", "DB_PASSWORD"}
ConfigKeys == SecretKeys \cup {"SITE_NAME"}

Config(key, value) == [key_name |-> key, value |-> value, is_secret |-> key \in SecretKeys]

\* the configuration lists the backend can answer with
ConfigLists ==
    {<<>>,
     <<Config("STRIPE_KEY", "sk_live_1"), Config("DB_PASSWORD", "hunter2"),
       Config("SITE_NAME", "taskflow")>>,
     <<Config("DB_PASSWORD", "hunter2"), Config("SITE_NAME", "taskflow")>>}

\* what adminAPI.getConfig can come back with: the list, a 403, another failure
AdminResponses ==
    {[kind |-> "ok", data |-> list] : list \in ConfigLists}
        \cup {[kind |-> k, data |-> <<>>] : k \in {"forbidden", "failed"}}

ToastNoAccess == [kind |-> "error", msg |-> "You do not have system admin access"]
ToastConfigsFailed == [kind |-> "error", msg |-> "Failed to load configurations"]
ToastConfigDeleted == [kind |-> "success", msg |-> "Configuration deleted successfully!"]
ToastDeleteFailed == [kind |-> "error", msg |-> "Failed to delete configuration"]

RECURSIVE Repeat(_, _)
\* str.repeat(n)
Repeat(str, n) == IF n = 0 THEN "" ELSE str \o Repeat(str, n - 1)

\* flags[key] as a condition: a key the object does not hold is undefined
Flag(flags, key) == key \in DOMAIN flags /\ flags[key]

\* the text shown for a configuration (the bullet is written * here)
Displayed(config, flags) ==
    IF config.is_secret /\ ~Flag(flags, config.key_name)
    THEN Repeat("*", MaskLength)
    ELSE config.value

\* the list of configurations is on screen
ConfigsShown == hasAccess /\ ~adminLoading /\ configs # <<>>

\* configs holds a secret under key: its row has the toggle button
HasSecret(key) == \E j \in 1..Len(configs) : configs[j].key_name = key /\ configs[j].is_secret

HasConfig(key) == \E j \in 1..Len(configs) : configs[j].key_name = key

\* The awaited request of fetchConfigs settles with resp: lines 28-38.
AdminFetchSettle(resp) ==
    /\ adminFetching > 0
    /\ adminFetching' = adminFetching - 1
    /\ CASE resp.kind = "ok" ->
              /\ configs' = resp.data
              /\ hasAccess' = TRUE
              /\ UNCHANGED <<toasts, loadFailures>>
         [] resp.kind = "forbidden" ->
              /\ hasAccess' = FALSE
              /\ toasts' = Append(toasts, ToastNoAccess)
              /\ loadFailures' = loadFailures + 1
              /\ UNCHANGED configs
         [] OTHER ->
              /\ toasts' = Append(toasts, ToastConfigsFailed)
              /\ loadFailures' = loadFailures + 1
              /\ UNCHANGED <<configs, hasAccess>>
    /\ adminLoading' = FALSE
    /\ UNCHANGED <<showSecrets, adminDeleting, edits, toggled, unhandled>>
    /\ UNCHANGED <<pollerVars, checkoutVars, appVars, tasksVars, dashVars, lastRequest>>

\* variant: the new object holds the toggled key only
ToggleSecretVisibility_DropsOthers(keyName) ==
    /\ ConfigsShown
    /\ HasSecret(keyName)
    /\ showSecrets' = [k \in {keyName} |-> ~Flag(showSecrets, keyName)]
    /\ toggled' = [toggled EXCEPT ![keyName] = ~@]
    /\ UNCHANGED <<configs, adminLoading, hasAccess, adminFetching, adminDeleting, edits,
                   loadFailures, toasts, unhandled>>
    /\ UNCHANGED <<pollerVars, checkoutVars, appVars, tasksVars, dashVars, lastRequest>>

\* the eye button of a secret: setShowSecrets(prev => ({...prev, [keyName]: !prev[keyName]}))
ToggleSecretVisibility(keyName) ==
    /\ ConfigsShown
    /\ HasSecret(keyName)
    /\ showSecrets' = [k \in DOMAIN showSecrets \cup {keyName} |->
                          IF k = keyName THEN ~Flag(showSecrets, keyName) ELSE showSecrets[k]]
    /\ toggled' = [toggled EXCEPT ![keyName] = ~@]
    /\ UNCHANGED <<configs, adminLoading, hasAccess, adminFetching, adminDeleting, edits,
                   loadFailures, toasts, unhandled>>
    /\ UNCHANGED <<pollerVars, checkoutVars, appVars, tasksVars, dashVars, lastRequest>>

\* the delete button of a row, confirmed: handleDeleteConfig up to its await
HandleDeleteConfig(keyName) ==
    /\ ConfigsShown
    /\ HasConfig(keyName)
    /\ edits < MaxEdits
    /\ edits' = edits + 1
    /\ adminDeleting' = adminDeleting + 1
    /\ UNCHANGED <<configs, adminLoading, showSecrets, hasAccess, adminFetching, toggled,
                   loadFailures, toasts, unhandled>>
    /\ UNCHANGED <<pollerVars, checkoutVars, appVars, tasksVars, dashVars, lastRequest>>

\* The awaited delete request settles: lines 68-71; success reloads the list.
DeleteConfigSettle(ok) ==
    /\ adminDeleting > 0
    /\ adminDeleting' = adminDeleting - 1
    /\ IF ok
       THEN /\ toasts' = Append(toasts, ToastConfigDeleted)
            /\ adminFetching' = adminFetching + 1
       ELSE /\ toasts' = Append(toasts, ToastDeleteFailed)
            /\ UNCHANGED adminFetching
    /\ UNCHANGED <<configs, adminLoading, showSecrets, hasAccess, edits, toggled,
                   loadFailures, unhandled>>
    /\ UNCHANGED <<pollerVars, checkoutVars, appVars, tasksVars, dashVars, lastRequest>>

AdminNext ==
    \/ \E resp \in AdminResponses : AdminFetchSettle(resp)
    \/ \E keyName \in ConfigKeys : ToggleSecretVisibility(keyName)
    \/ \E keyName \in ConfigKeys : HandleDeleteConfig(keyName)
    \/ \E ok \in BOOLEAN : DeleteConfigSettle(ok)

\* the events of a user who moves between the login page and the dashboard
SessionEvents ==
    \/ Load
    \/ \E t \in Tokens, u \in Users : Login(t, u)
    \/ HandleLogout
    \/ Redirect
    \/ DashboardHandlers

\* The application with its dashboard.  A change of what the route shows is
\* committed, unmounting and mounting the dashboard, before the next event
\* is handled.
DashboardNext ==
    \/ DashboardUnmount
    \/ ~NeedsUnmount /\ DashboardMount
    \/ ~NeedsUnmount /\ ~NeedsMount /\ SessionEvents

PollerNext ==
    \/ Mount
    \/ Unmount
    \/ \E i \in Insts, o \in Outcomes : Settle(i, o)
    \/ \E i \in Insts : TimerFire(i)

Init ==
    /\ sessionId \in Sessions \cup {NoSession, EmptyString}
    /\ mounted = FALSE
    /\ inst = 0
    /\ status = "checking"
    /\ attempts = 0
    /\ closureAttempts = [i \in Insts |-> 0]
    /\ inflight = [i \in Insts |-> 0]
    /\ timers = [i \in Insts |-> 0]
    /\ toasts = <<>>
    /\ queries = 0
    /\ responses = <<>>
    /\ disposedPending = [i \in Insts |-> FALSE]
    /\ runToasts = <<>>
    /\ unhandled = 0
    /\ localStorage \in StorageContents
    /\ user = Null
    /\ appLoading = TRUE
    /\ effectRan = FALSE
    /\ location \in Paths
    /\ logins = 0
    /\ tasks = <<>>
    /\ taskMembers = <<>>
    /\ tasksLoading = TRUE
    /\ activeFilter = "all"
    /\ taskFetches = {TaskFetch(1, "all")}
    /\ taskSent = 1
    /\ configs = <<>>
    /\ adminLoading = TRUE
    /\ showSecrets = [k \in {} |-> FALSE]
    /\ hasAccess = TRUE
    /\ adminFetching = 1
    /\ adminDeleting = 0
    /\ edits = 0
    /\ toggled = [k \in ConfigKeys |-> FALSE]
    /\ organizations = <<>>
    /\ dashLoading = TRUE
    /\ createDialogOpen = FALSE
    /\ dashMounted = FALSE
    /\ dashFetching = 0
    /\ dashCreating = 0
    /\ staleFetching = 0
    /\ staleCreating = 0
    /\ dashMounts = 0
    /\ creates = 0
    /\ lastRequest = [n |-> 0, api |-> "", headers |-> NoHeaders]
    /\ loadFailures = 0
    /\ organization = Null
    /\ members = <<>>
    /\ stats = Null
    /\ loading = TRUE
    /\ inviteDialogOpen = FALSE
    /\ fetching = 1
    /\ selectedPackage = "starter"
    /\ paymentDialogOpen = FALSE
    /\ pending = {}
    /\ sent = 0
    /\ navigations = <<>>
    /\ clicks = 0
    /\ settled = <<>>

\* Each page is checked on its own, in a browser that holds a login and was
\* opened at the page's path; the application around it is AppSpec's.
AtPaymentSuccess == localStorage = LoggedInStorage /\ location = "/payment-success"
AtOrganization ==
    /\ localStorage = LoggedInStorage
    /\ location = "/organization/org-42"
    /\ sessionId = NoSession

PollerInit == Init /\ AtPaymentSuccess
CheckoutInit == Init /\ AtOrganization
AppInit == Init /\ sessionId = NoSession

PollerSpec == PollerInit /\ [][PollerNext]_vars

CheckoutSpec == CheckoutInit /\ [][CheckoutNext]_vars

AppSpec == AppInit /\ [][AppNext]_vars

\* the dashboard is opened by a browser that holds a login, or a token only
AtDashboard ==
    /\ localStorage \in {LoggedInStorage, [token |-> "tok-1", user |-> Null]}
    /\ location = "/dashboard"
    /\ sessionId = NoSession

DashboardInit == Init /\ AtDashboard

DashboardSpec == DashboardInit /\ [][DashboardNext]_vars

\* The four pages that load data when they open, each in a browser that was
\* opened at its path and stays there.
PagesNext ==
    \/ location = "/dashboard" /\ (Load \/ DashboardMount \/ (~NeedsMount /\ DashboardHandlers))
    \/ location = "/organization/org-42" /\ CheckoutNext
    \/ location = "/organization/org-42/tasks" /\ TasksNext
    \/ location = "/admin" /\ AdminNext

PagesInit ==
    /\ Init
    /\ localStorage = LoggedInStorage
    /\ location \in {"/dashboard", "/organization/org-42", "/organization/org-42/tasks", "/admin"}
    /\ sessionId = NoSession

PagesSpec == PagesInit /\ [][PagesNext]_vars

AtTasks ==
    /\ localStorage = LoggedInStorage
    /\ location = "/organization/org-42/tasks"
    /\ sessionId = NoSession

TasksInit == Init /\ AtTasks

TasksSpec == TasksInit /\ [][TasksNext]_vars

AtAdmin ==
    /\ localStorage = LoggedInStorage
    /\ location = "/admin"
    /\ sessionId = NoSession

AdminInit == Init /\ AtAdmin

AdminSpec == AdminInit /\ [][AdminNext]_vars

Next == PollerNext \/ CheckoutNext

\* one of the two pages at a time: the payment result page while the
\* organization page has not been opened, or the organization page while the
\* payment result page has not
WorkflowsNext ==
    \/ fetching = 1 /\ loading /\ PollerNext
    \/ inst = 0 /\ CheckoutNext

WorkflowsInit == Init /\ localStorage = LoggedInStorage /\ location = "/dashboard"

WorkflowsSpec == WorkflowsInit /\ [][WorkflowsNext]_vars

Spec == Init /\ [][Next]_vars

\* every issued request eventually settles, every scheduled delay eventually elapses
PollerFairSpec ==
    /\ PollerSpec
    /\ \A i \in Insts : WF_vars(TimerFire(i))
    /\ \A i \in Insts : WF_vars(\E o \in Outcomes : Settle(i, o))

(* ------------------------- claims: the poller -------------------------- *)

RECURSIVE SumTo(_, _)
SumTo(f, n) == IF n = 0 THEN 0 ELSE f[n] + SumTo(f, n - 1)

\* all of them, over every instance
Total(f) == SumTo(f, MaxMounts)

AllUnpaid(h) == \A j \in 1..Len(h) : h[j] = "unpaid"

\* h is k-1 not-paid outcomes followed by outcome o
EndsAt(h, k, o) ==
    /\ Len(h) >= k
    /\ \A j \in 1..(k - 1) : h[j] = "unpaid"
    /\ h[k] = o

\* instance i is the mounted one
Live(i) == mounted /\ inst = i

\* instance i has no request in flight and no timer pending
Quiet(i) == inflight[i] = 0 /\ timers[i] = 0

\* C1: a mounted poller whose status query returns not-paid every time issues
\* exactly 6 queries (the initial one plus 5 retries), is in `timeout` once
\* the 6th has been answered, and never issues a 7th.
C1_SixQueriesThenTimeout ==
    (mounted /\ AllUnpaid(responses)) =>
        /\ queries <= maxAttempts + 1
        /\ (Len(responses) = maxAttempts + 1 => status = "timeout" /\ Quiet(inst))

\* C2: once an instance has been unmounted while `checking` with a delayed
\* re-query pending, it issues no status query any more, and its status and
\* attempt counter do not change.
C2_NoQueryAfterDisposal ==
    [][\A i \in Insts :
          disposedPending[i] =>
              /\ inflight'[i] <= inflight[i]
              /\ (inst' = i => status' = status /\ attempts' = attempts)]_vars

\* C3: at every moment at most one status query is in flight and at most one
\* delayed re-query is pending, and never both, whatever the sequence of
\* mounts and responses.
C3_OneQueryOrOneTimer ==
    Total(inflight) + Total(timers) <= 1

\* C4: with a session identifier present, every query settling and every
\* delay elapsing, a mounted poller eventually leaves `checking` for one of
\* `success`, `timeout`, `error`.
C4_EventuallyTerminal ==
    \A i \in Insts :
        (Live(i) /\ sessionId \in Sessions) ~> (~Live(i) \/ status \in Terminal)

\* C5: when the first status query returns `paid`, the poller is in `success`
\* after exactly one query and issues no further query.
C5_PaidFirst ==
    (responses # <<>> /\ responses[1] = "paid") =>
        /\ queries = 1
        /\ Quiet(inst)
        /\ (mounted => status = "success")

C5_Witness ==
    /\ mounted
    /\ responses = <<"paid">>
    /\ status = "success"

\* C6: for k = 1..6, not-paid on queries 1..k-1 and `paid` on query k puts
\* the poller in `success` (never `timeout`) after exactly k queries, with no
\* query after the k-th.
C6_PaidAtK ==
    \A k \in 1..(maxAttempts + 1) :
        EndsAt(responses, k, "paid") =>
            /\ queries = k
            /\ Len(responses) = k
            /\ Quiet(inst)
            /\ (mounted => status = "success")

C6_Witness ==
    /\ mounted
    /\ EndsAt(responses, maxAttempts + 1, "paid")
    /\ status = "success"
    /\ attempts = maxAttempts

\* C7: a status query that fails on attempt k (any k, the first included)
\* puts the poller in `error` at once, with no retry: exactly k queries.
C7_FailAtK ==
    \A k \in 1..(MaxCount - 1) :
        EndsAt(responses, k, "rejected") =>
            /\ queries = k
            /\ Len(responses) = k
            /\ Quiet(inst)
            /\ (mounted => status = "error")

C7_Witness ==
    /\ mounted
    /\ \E k \in 2..(MaxCount - 1) : EndsAt(responses, k, "rejected")
    /\ status = "error"
    /\ toasts = <<ToastFailed>>

\* C8: once the status of the mounted component is `success`, `timeout` or
\* `error` it never changes, no further status query is issued and no delayed
\* re-query is scheduled.
C8_TerminalIsFinal ==
    [][(mounted /\ mounted' /\ status \in Terminal) =>
          /\ status' = status
          /\ \A i \in Insts : inflight'[i] <= inflight[i] /\ timers'[i] <= timers[i]]_vars

(* -------------------- claims: the checkout initiator ------------------- *)

IsOk(e) == e.resp.kind = "ok"

\* the handled checkout responses that were successes, oldest first
Oks == SelectSeq(settled, IsOk)

\* C9: every checkout request that succeeds performs exactly one browser
\* navigation, and when the response carries a URL the target is that URL,
\* unmodified.
C9_NavigatesToReturnedUrl ==
    /\ Len(navigations) = Len(Oks)
    /\ \A j \in 1..Len(Oks) :
          Oks[j].resp.val \in Urls => navigations[j] = Oks[j].resp.val

C9_Witness ==
    /\ Len(settled) = 1
    /\ settled[1].resp.kind = "ok"
    /\ settled[1].resp.val \in Urls
    /\ navigations = <<settled[1].resp.val>>
    /\ toasts = <<>>

\* the step handles a checkout request that the backend or the network failed
FailureHandled ==
    /\ Len(settled') = Len(settled) + 1
    /\ settled'[Len(settled')].resp.kind = "rejected"

\* C10: handling a failed checkout request performs no navigation, emits
\* exactly one error notification, and sends no further checkout request.
C10_FailureStaysOnPage ==
    [][FailureHandled =>
          /\ navigations' = navigations
          /\ Len(toasts') = Len(toasts) + 1
          /\ toasts'[Len(toasts')].kind = "error"
          /\ sent' = sent
          /\ Cardinality(pending') = Cardinality(pending) - 1]_vars

C10_Witness ==
    /\ Len(settled) = 1
    /\ settled[1].resp.kind = "rejected"
    /\ Len(toasts) = 1
    /\ navigations = <<>>
    /\ sent = 1
    /\ pending = {}

\* the step handles a fulfilled checkout response whose url is missing or empty
NoUrlHandled ==
    /\ Len(settled') = Len(settled) + 1
    /\ settled'[Len(settled')].resp.kind = "ok"
    /\ settled'[Len(settled')].resp.val \in {Undefined, EmptyString}

\* C11: a success response that carries no usable redirect URL (url missing or
\* empty) is surfaced as an error notification and causes no navigation.
C11_NoUrlIsAnError ==
    [][NoUrlHandled =>
          /\ navigations' = navigations
          /\ Len(toasts') = Len(toasts) + 1
          /\ toasts'[Len(toasts')].kind = "error"]_vars

\* C13: handling a failed checkout request leaves the page state as it was:
\* the selected plan, both dialogs' open flags, the loaded organization,
\* members and stats, and the loading flag.
C13_FailureLeavesPage ==
    [][FailureHandled =>
          UNCHANGED <<selectedPackage, paymentDialogOpen, inviteDialogOpen, organization,
                      members, stats, loading>>]_vars

C13_Witness ==
    /\ settled # <<>>
    /\ settled[Len(settled)].resp.kind = "rejected"
    /\ selectedPackage = "enterprise"
    /\ paymentDialogOpen
    /\ inviteDialogOpen
    /\ organization = "organization:free"
    /\ members # <<>>
    /\ ~loading

UnpaidCount(h) == Len(SelectSeq(h, LAMBDA o : o = "unpaid"))

\* C12: a page loaded without a session_id parameter issues no status query,
\* schedules no timer and emits no notification; its status stays `checking`
\* and its attempt counter stays 0.
C12_NoSessionNoAction ==
    sessionId = NoSession =>
        /\ Total(inflight) = 0
        /\ Total(timers) = 0
        /\ queries = 0
        /\ toasts = <<>>
        /\ status = "checking"
        /\ attempts = 0

\* the page has been mounted, left and mounted again without a session_id
C12_Witness == sessionId = NoSession /\ mounted /\ inst >= 2

\* C14: a poller run emits at most one notification, and only on entering a
\* terminal state: none while it is `checking`, the success message in
\* `success`, the timeout message in `timeout`, the failure message in
\* `error`; the timeout message differs from the failure message.
C14_OneMatchingNotification ==
    /\ Len(runToasts) <= 1
    /\ mounted =>
          /\ (status = "checking" => runToasts = <<>>)
          /\ (status = "success" => runToasts = <<ToastSuccess>>)
          /\ (status = "timeout" => runToasts = <<ToastTimeout>>)
          /\ (status = "error" => runToasts = <<ToastFailed>>)
    /\ ToastTimeout.msg # ToastFailed.msg

\* a run that retried twice and then failed has said so once
C14_Witness ==
    /\ mounted
    /\ status = "error"
    /\ Len(responses) = 3
    /\ runToasts = <<ToastFailed>>

\* C17: the attempt counter stays within 0..5, and the value a query's result
\* is compared with equals the number of not-paid results received before it.
C17_AttemptsCountNotPaid ==
    mounted =>
        /\ attempts \in 0..maxAttempts
        /\ (inflight[inst] > 0 => closureAttempts[inst] = UnpaidCount(responses))

(* ----------------------- claims: both workflows ------------------------- *)

\* the checkout responses handled so far that were not a success with a body
CheckoutFailures == SelectSeq(settled, LAMBDA e : e.resp.kind # "ok")

\* the notifications of the organization page other than the load failure
CheckoutToasts == SelectSeq(toasts, LAMBDA t : t # ToastLoadFailed)

\* C15: no failure of either workflow escapes it.  A status query that is
\* rejected, or whose response cannot be read (no data body), ends the poller
\* run in `error` with the failure notification; a checkout request that is
\* rejected or cannot be read gives one error notification; no rejection is
\* left unhandled.
C15_FailuresAreCaught ==
    /\ unhandled = 0
    /\ (responses # <<>> /\ responses[Len(responses)] \in {"rejected", "nodata"}) =>
          /\ runToasts = <<ToastFailed>>
          /\ mounted => status = "error"
    /\ inst = 0 =>
          /\ Len(CheckoutToasts) = Len(CheckoutFailures)
          /\ \A j \in 1..Len(CheckoutToasts) : CheckoutToasts[j].kind = "error"

\* a status response without a data body arrived after one retry
C15_Witness ==
    /\ mounted
    /\ responses = <<"unpaid", "nodata">>
    /\ status = "error"
    /\ runToasts = <<ToastFailed>>
    /\ unhandled = 0

(* ------------------------ claims: the application ----------------------- *)

\* the step is a logout: it says so
LogoutStep ==
    /\ Len(toasts') = Len(toasts) + 1
    /\ toasts'[Len(toasts')] = ToastLoggedOut

\* C18: logout removes the token and the stored user from persistent storage,
\* sets the in-memory user to null and navigates to /auth.
C18_LogoutClearsSession ==
    [][LogoutStep =>
          /\ getItem(localStorage', "token") = Null
          /\ getItem(localStorage', "user") = Null
          /\ user' = Null
          /\ location' = "/auth"]_vars

\* a user who logged in has logged out and sees the login page
C18_Witness ==
    /\ logins = 1
    /\ toasts # <<>>
    /\ toasts[Len(toasts)] = ToastLoggedOut
    /\ localStorage = [token |-> Null, user |-> Null]
    /\ user = Null
    /\ Shown = Page("AuthPage")

\* C19: once loading has completed, a protected page is rendered only while
\* the in-memory user is non-null; with a null user every protected route
\* redirects to /auth, with a non-null user /auth redirects to /dashboard.
C19_RoutesAreGated ==
    ~appLoading =>
        /\ (Shown.kind = "page" /\ Shown.arg \in ProtectedPages) => user # Null
        /\ (user = Null /\ location \in ProtectedPaths) => Shown = Navigate("/auth")
        /\ (user # Null /\ location = "/auth") => Shown = Navigate("/dashboard")

\* after a login and a logout, /admin is opened: the gate redirects
C19_Witness ==
    /\ logins = 1
    /\ ~appLoading
    /\ user = Null
    /\ location = "/admin"
    /\ Shown = Navigate("/auth")

\* the step is the load of the application
LoadStep == ~effectRan /\ effectRan'

\* C20: the load makes the in-memory user non-null exactly when storage holds
\* both a token and a stored user, and then it is the stored user; it leaves
\* storage unchanged and completes by setting loading to false, whatever
\* storage holds.
C20_LoadHydratesAndCompletes ==
    [][LoadStep =>
          /\ user' # Null <=>
                (Truthy(getItem(localStorage, "token")) /\ Truthy(getItem(localStorage, "user")))
          /\ user' # Null => getItem(localStorage, "user") = JSONStringify(user')
          /\ localStorage' = localStorage
          /\ appLoading' = FALSE]_vars

(* ------------------- claims: the two payment pages, end ----------------- *)

\* C22: while the poller is `checking`, the attempt number shown to the user
\* (attempt counter + 1) is never greater than the total of 5 shown next to it.
C22_ShownAttemptWithinTotal ==
    (mounted /\ status = "checking") => AttemptShown(attempts) <= AttemptsTotalShown

\* C23: at most one checkout request is outstanding at any time, so one
\* upgrade interaction gives at most one checkout session.
C23_OneCheckoutOutstanding ==
    Cardinality(pending) <= 1

(* ------------------------ claims: the tasks page ------------------------ *)

\* the parameters each filter stands for
ParamsTable(filter) ==
    CASE filter = "all" -> {}
      [] filter = "my-tasks" -> {<<"assigned_to_me", "true">>}
      [] filter = "daily" -> {<<"is_daily", "true">>}
      [] filter = "pending" -> {<<"status", "pending">>}
      [] filter = "about_to_do" -> {<<"status", "about_to_do">>}
      [] filter = "completed" -> {<<"status", "completed">>}

\* C24: once every task-list fetch has settled, all of them successfully, the
\* displayed list is the response of the fetch issued for the active filter
\* (the latest one), in whatever order the responses arrived.
C24_ShowsActiveFilter ==
    (taskFetches = {} /\ loadFailures = 0) => tasks = <<taskSent>>

C21_SecretsShownByFlag ==
    /\ \A j \in 1..Len(configs) :
          (configs[j].is_secret /\ Displayed(configs[j], showSecrets) = configs[j].value)
              => Flag(showSecrets, configs[j].key_name)
    /\ \A key \in ConfigKeys : Flag(showSecrets, key) <=> toggled[key]

\* one secret was revealed, the other revealed and hidden again, and the
\* list was reloaded after a delete
C21_Witness ==
    /\ ConfigsShown
    /\ Len(configs) = 3
    /\ edits = 1
    /\ adminFetching = 0
    /\ adminDeleting = 0
    /\ Displayed(configs[1], showSecrets) = "sk_live_1"
    /\ Displayed(configs[2], showSecrets) = Repeat("*", MaskLength)
    /\ "DB_PASSWORD" \in DOMAIN showSecrets

(* ------------------------- claims: API requests ------------------------- *)

\* the step builds a request
RequestStep == lastRequest' # lastRequest

\* the request carries the Authorization header exactly when storage holds a
\* token, and then the header is "Bearer " followed by the token
HeaderOfToken(req, store) ==
    /\ "Authorization" \in DOMAIN req.headers <=> Truthy(getItem(store, "token"))
    /\ "Authorization" \in DOMAIN req.headers =>
          req.headers["Authorization"] = "Bearer " \o getItem(store, "token")

\* C25 as stated: every API request the client builds carries an
\* Authorization header exactly when a token is in persistent storage at the
\* moment the request is made, and then its value is "Bearer " followed by
\* that token.
C25_EveryRequestHeaderIffToken ==
    [][RequestStep => HeaderOfToken(lastRequest', localStorage)]_vars

\* C25, amended: every API request the client builds other than the login
\* request carries an Authorization header exactly when a token is in
\* persistent storage at the moment the request is made, and then its value
\* is "Bearer " followed by that token; the login request never carries one;
\* a request built while storage holds no token, as after logout, carries none.
C25_HeaderIffTokenButLogin ==
    [][RequestStep =>
          /\ lastRequest'.api # AuthLogin.api => HeaderOfToken(lastRequest', localStorage)
          /\ lastRequest'.api = AuthLogin.api => lastRequest'.headers = NoHeaders
          /\ getItem(localStorage, "token") = Null => lastRequest'.headers = NoHeaders]_vars

\* the create request, sent with the token, was answered after the logout:
\* the reload of the list it triggers carries no header
C25_Witness ==
    /\ toasts = <<ToastLoggedOut, ToastOrgCreated>>
    /\ getItem(localStorage, "token") = Null
    /\ lastRequest.api = "GET /organizations"
    /\ lastRequest.headers = NoHeaders
    /\ staleFetching = 1

(* ----------------------- claims: the loading flags ---------------------- *)

\* the lists the four pages hold
HeldLists == <<organizations, organization, members, stats, tasks, taskMembers, configs>>

\* the step handles a data fetch that failed
LoadFailedStep == loadFailures' = loadFailures + 1

\* C27: on the dashboard, organization, tasks and admin pages the loading
\* flag is false once the initial data fetch has settled, whether it succeeded
\* or failed, and never returns to true; a failed fetch leaves the lists held
\* before unchanged and emits one error notification.
C27_LoadingEnds ==
    /\ [](/\ (dashMounted /\ dashFetching = 0) => ~dashLoading
          /\ fetching = 0 => ~loading
          /\ TaskFetch(1, "all") \notin taskFetches => ~tasksLoading
          /\ adminFetching = 0 => ~adminLoading)
    /\ [][/\ ~dashLoading => ~dashLoading'
          /\ ~loading => ~loading'
          /\ ~tasksLoading => ~tasksLoading'
          /\ ~adminLoading => ~adminLoading'
          /\ LoadFailedStep =>
                /\ UNCHANGED HeldLists
                /\ Len(toasts') = Len(toasts) + 1
                /\ toasts'[Len(toasts')].kind = "error"
                /\ ~dashLoading' \/ ~loading' \/ ~tasksLoading' \/ ~adminLoading']_vars

\* the admin page keeps the list it held when the reload after a delete fails
C27_Witness ==
    /\ location = "/admin"
    /\ ~adminLoading
    /\ Len(configs) = 3
    /\ loadFailures = 1
    /\ adminFetching = 0
    /\ toasts = <<ToastConfigDeleted, ToastConfigsFailed>>

====
